---- MODULE Spec2Model ----
(***************************************************************************)
(* Model of the debugger control core of delve: proc/proc.go (type         *)
(* Process).  The Process fields are the variables; every method of        *)
(* Process is an operator from a Process state (a record of the fields and *)
(* of tracee memory) to its outcome(s), and an action applies it.          *)
(* Collaborators whose code lives in other files of the package            *)
(* (Breakpoint, Thread, Arch, the OS layer) follow the specification text. *)
(***************************************************************************)
EXTENDS Integers, Sequences, FiniteSets, TLC

(* ------------------------------ bounds --------------------------------- *)
\* tracee code addresses are 0..MaxAddr
MaxAddr == 2
\* breakpoint id counters stop growing at MaxID
MaxID == 2
\* a behaviour of the whole debugger is at most MaxSteps calls of operations
\* and passes of the loop of Continue
MaxSteps == 4

Addrs == 0..MaxAddr

(* ------------------------- architecture (AMD64) ------------------------ *)
\* Arch.BreakpointSize(): length of the trap encoding
BreakpointSize == 1
\* Arch.BreakpointInstruction(): the trap pattern (INT3)
Trap == 204
\* the tracee's code bytes before the debugger touched them
OrigByte(a) == 16 + a
\* Breakpoint.Cond of a breakpoint without condition
NoCond == -1

nil == "nil"
panic == "panic"

(* ------------------------------- state --------------------------------- *)
\* os thread ids are 1..NumThreads
NumThreads == 2
\* tasklet (goroutine) ids are 1..NumG; 0 stands for "no tasklet"
NumG == 3

Tids == 1..NumThreads
GIds == 1..NumG
\* a program counter outside the modelled code addresses
Elsewhere == MaxAddr + 2

VARIABLES
  Breakpoints,              \* Process.Breakpoints: addr -> Breakpoint
  mem,                      \* tracee code memory: addr -> byte
  Threads,                  \* Process.Threads: tid -> Thread
  CurrentThread,            \* Process.CurrentThread (a tid)
  SelectedGoroutine,        \* Process.SelectedGoroutine (a G, or nil)
  allGCache,                \* Process.allGCache (a nil slice is the empty list)
  breakpointIDCounter,      \* Process.breakpointIDCounter
  tempBreakpointIDCounter,  \* Process.tempBreakpointIDCounter
  halt,                     \* Process.halt
  exited,                   \* Process.exited
  ptraceChan,               \* Process.ptraceChan / ptraceDoneChan: "open" or "closed"
  ctl,                      \* where control is: "idle" (with the caller), "Continue", "aborted"
  op,                       \* the operation called last: "Next", "Continue", or "other"
  err,                      \* what it returned
  site,                     \* the return statement of Continue that ended it
  steps,                    \* how many calls and passes were made so far
  ser,                      \* the goroutines at work in execPtraceFunc and handlePtraceFuncs
  loc                       \* a call of FindFunctionLocation: its arguments and locals

vars == <<Breakpoints, mem, Threads, CurrentThread, SelectedGoroutine, allGCache,
          breakpointIDCounter, tempBreakpointIDCounter, halt, exited, ptraceChan,
          ctl, op, err, site, steps, ser, loc>>

\* the Process (and the tracee memory it patches) as one value; its log is what
\* the operation in progress did to the tracee so far, in order
Cur ==
  [Breakpoints |-> Breakpoints, mem |-> mem, Threads |-> Threads,
   CurrentThread |-> CurrentThread, SelectedGoroutine |-> SelectedGoroutine,
   allGCache |-> allGCache,
   breakpointIDCounter |-> breakpointIDCounter,
   tempBreakpointIDCounter |-> tempBreakpointIDCounter,
   halt |-> halt, exited |-> exited, ptraceChan |-> ptraceChan, log |-> << >>]

Commit(s) ==
  /\ Breakpoints' = s.Breakpoints
  /\ mem' = s.mem
  /\ Threads' = s.Threads
  /\ CurrentThread' = s.CurrentThread
  /\ SelectedGoroutine' = s.SelectedGoroutine
  /\ allGCache' = s.allGCache
  /\ breakpointIDCounter' = s.breakpointIDCounter
  /\ tempBreakpointIDCounter' = s.tempBreakpointIDCounter
  /\ halt' = s.halt
  /\ exited' = s.exited
  /\ ptraceChan' = s.ptraceChan

\* goroutines of the debugger that call execPtraceFunc are 1..NumCallers
NumCallers == 2
\* each of them makes at most MaxCalls calls
MaxCalls == 2

Callers == 1..NumCallers

\* New(pid): nobody is in execPtraceFunc, and the worker started by
\* "go dbp.handlePtraceFuncs()" waits in its range over ptraceChan
\*   pcs[c]:   "idle", "send" (at ptraceChan <- fn), "recv" (at <-ptraceDoneChan)
\*   calls[c]: how many calls c has begun; <<c, calls[c]>> names its closure
\*   wpc:      "range", "run" (in fn()), "ack" (at ptraceDoneChan <- nil), "stopped"
\*   cur:      the closure the worker took last
\*   accepted: the closures in the order the worker received them
\*   ran:      the closures in the order they finished running
\*   rets:     the closures whose execPtraceFunc call has returned
Ser0 ==
  [pcs |-> [c \in Callers |-> "idle"], calls |-> [c \in Callers |-> 0],
   wpc |-> "range", cur |-> <<0, 0>>,
   accepted |-> << >>, ran |-> << >>, rets |-> {}]

\* the lines of a source file that the line table can map are 1..MaxLine
MaxLine == 3

\* no call of FindFunctionLocation was made
Loc0 ==
  [pc |-> "idle", tab |-> [l \in 1..MaxLine |-> ""], funcName |-> "", entry |-> 0,
   lineno |-> 0, result |-> 0]

\* a G read from the tracee: its id, its backing thread (0: none) and whether
\* it is blocked in a channel receive
MkG(id, th, recv) == [Id |-> id, thread |-> th, recv |-> recv]
\* a nil *G
NoG == MkG(0, 0, FALSE)
\* a nil *Breakpoint
NoBp == [Addr |-> Elsewhere, OriginalData |-> 0, ID |-> 0, Temp |-> FALSE, Cond |-> NoCond]

\* a stopped thread that latched nothing
Thread0(g) ==
  [running |-> FALSE, CurrentBreakpoint |-> NoBp, BreakpointConditionMet |-> FALSE,
   PC |-> Elsewhere, g |-> g]

\* New(pid) followed by initializeDebugProcess: the tracee is stopped, thread 1
\* is current and runs tasklet 1, the other threads run no tasklet
Init ==
  /\ Breakpoints = << >>
  /\ mem = [a \in Addrs |-> OrigByte(a)]
  /\ Threads = [t \in Tids |-> Thread0(IF t = 1 THEN 1 ELSE 0)]
  /\ CurrentThread = 1
  /\ SelectedGoroutine = MkG(1, 1, FALSE)
  /\ allGCache = {}
  /\ breakpointIDCounter = 0
  /\ tempBreakpointIDCounter = 0
  /\ halt = FALSE
  /\ exited = FALSE
  /\ ptraceChan = "open"
  /\ ctl = "idle"
  /\ op = "other"
  /\ err = nil
  /\ site = nil
  /\ steps = 0
  /\ ser = Ser0
  /\ loc = Loc0

(* --------------------------- helpers ----------------------------------- *)
Remove(f, k) == [x \in (DOMAIN f) \ {k} |-> f[x]]
Put(f, k, v) == [x \in (DOMAIN f) \cup {k} |-> IF x = k THEN v ELSE f[x]]

Out(s, e) == [s |-> s, err |-> e]

\* every order in which a Go range statement may produce the keys of a map
Orders(S) ==
  {q \in [1..Cardinality(S) -> S] : \A i, j \in DOMAIN q : i # j => q[i] # q[j]}

\* the events of a log that move a thread of the tracee
Moves == {"step", "steptrap", "resume"}

\* record one event of the operation in progress; the first move of a thread
\* made while the tasklet cache holds a list is preceded by "stale"
Logged(s, e) ==
  LET l == IF e \in Moves /\ s.allGCache # {}
                /\ ~\E i \in DOMAIN s.log : s.log[i] = "stale"
             THEN Append(s.log, "stale") ELSE s.log
  IN IF Len(l) > 0 /\ l[Len(l)] = e THEN [s EXCEPT !.log = l]
     ELSE [s EXCEPT !.log = Append(l, e)]

(* ------------------------ Serializer ----------------------------------- *)
\* execPtraceFunc: a send on the request channel; the Go runtime aborts a
\* send on a closed channel
execPtraceFunc(s) == IF s.ptraceChan = "closed" THEN panic ELSE nil

(* ------------------------ Breakpoint ----------------------------------- *)
\* Breakpoint.Clear(thread): restore the original bytes
BpClear(s, bp) ==
  IF execPtraceFunc(s) = panic THEN Out(s, panic)
  ELSE IF s.mem[bp.Addr] # Trap THEN Out(s, "NotInstalled")
  ELSE Out([s EXCEPT !.mem[bp.Addr] = bp.OriginalData], nil)

(* ------------------------ breakpoint table ------------------------------ *)
\* Process.FindBreakpoint(pc)
FindBreakpoint(s, pc) ==
  IF (pc - BreakpointSize) \in DOMAIN s.Breakpoints
    THEN [ok |-> TRUE, bp |-> s.Breakpoints[pc - BreakpointSize]]
  ELSE IF pc \in DOMAIN s.Breakpoints
    THEN [ok |-> TRUE, bp |-> s.Breakpoints[pc]]
  ELSE [ok |-> FALSE, bp |-> NoBp]

\* Process.FindBreakpointByID(id): the entry the range over the map meets
\* first among those with this id, one outcome per iteration order
FindBreakpointByID(s, id) ==
  LET hits == {a \in DOMAIN s.Breakpoints : s.Breakpoints[a].ID = id}
  IN IF hits = {} THEN {[ok |-> FALSE, bp |-> NoBp]}
     ELSE {[ok |-> TRUE, bp |-> s.Breakpoints[a]] : a \in hits}

\* Process.setBreakpoint(tid, addr, temp)
setBreakpoint(s, addr, temp) ==
  IF addr \in DOMAIN s.Breakpoints THEN Out(s, "BreakpointExists")
  ELSE IF execPtraceFunc(s) = panic THEN Out(s, panic)
  ELSE
    LET id == IF temp THEN s.tempBreakpointIDCounter + 1
                      ELSE s.breakpointIDCounter + 1
        bp == [Addr |-> addr, OriginalData |-> s.mem[addr], ID |-> id,
               Temp |-> temp, Cond |-> NoCond]
    IN Out([s EXCEPT !.Breakpoints = Put(@, addr, bp),
                     !.mem[addr] = Trap,
                     !.tempBreakpointIDCounter = IF temp THEN id ELSE @,
                     !.breakpointIDCounter = IF temp THEN @ ELSE id], nil)

\* Process.SetBreakpoint(addr)
SetBreakpoint(s, addr) == setBreakpoint(s, addr, FALSE)

\* Process.SetTempBreakpoint(addr)
SetTempBreakpoint(s, addr) == setBreakpoint(s, addr, TRUE)

\* ClearBreakpoint that deletes the entry and leaves the trap in tracee memory
ClearBreakpointNoRestore(s, addr) ==
  IF ~FindBreakpoint(s, addr).ok THEN Out(s, "NoBreakpoint")
  ELSE Out(Logged([s EXCEPT !.Breakpoints = Remove(@, addr)], "clear"), nil)

\* Process.ClearBreakpoint(addr)
ClearBreakpoint(s, addr) ==
  LET f == FindBreakpoint(s, addr) IN
  IF ~f.ok THEN Out(s, "NoBreakpoint")
  ELSE LET c == BpClear(s, f.bp) IN
       IF c.err # nil THEN Out(c.s, c.err)
       ELSE Out(Logged([c.s EXCEPT !.Breakpoints = Remove(@, addr)], "clear"), nil)

(* ------------------------------ Thread --------------------------------- *)
\* Thread.GetG(): the tasklet the thread runs, read through the Serializer
GetG(s, t) ==
  IF execPtraceFunc(s) = panic THEN [g |-> NoG, err |-> panic]
  ELSE IF s.Threads[t].g = 0 THEN [g |-> NoG, err |-> "NoG"]
  ELSE [g |-> MkG(s.Threads[t].g, t, FALSE), err |-> nil]

\* Thread.blocked(): the thread sits in the runtime and runs no tasklet
blocked(s, t) == s.Threads[t].g = 0

\* Thread.Halt(): deliver a stop signal and wait for the stop
ThreadHalt(s, t) ==
  IF ~s.Threads[t].running THEN Out(s, nil)
  ELSE IF execPtraceFunc(s) = panic THEN Out(s, panic)
  ELSE Out(Logged([s EXCEPT !.Threads[t].running = FALSE], "halt"), nil)

\* Thread.onTriggeredBreakpoint()
onTriggeredBreakpoint(th) ==
  th.CurrentBreakpoint # NoBp /\ th.BreakpointConditionMet

\* Thread.onTriggeredTempBreakpoint()
onTriggeredTempBreakpoint(th) ==
  onTriggeredBreakpoint(th) /\ th.CurrentBreakpoint.Temp

(* ------------------------------ Process -------------------------------- *)
\* Process.Running()
Running(s) == \E t \in DOMAIN s.Threads : s.Threads[t].running

RECURSIVE HaltFrom(_, _, _)
HaltFrom(s, ord, i) ==
  IF i > Len(ord) THEN Out(s, nil)
  ELSE LET h == ThreadHalt(s, ord[i]) IN
       IF h.err # nil THEN h ELSE HaltFrom(h.s, ord, i + 1)

\* Process.Halt(): the outcomes, one per order of the range over Threads
Halt(s) == {HaltFrom(s, ord, 1) : ord \in Orders(DOMAIN s.Threads)}

\* SwitchThread that does not look tid up in the Threads map
SwitchThreadUnchecked(s, tid) ==
  Out([s EXCEPT !.CurrentThread = tid, !.SelectedGoroutine = NoG], nil)

\* Process.SwitchThread(tid)
SwitchThread(s, tid) ==
  IF tid \in DOMAIN s.Threads
    THEN LET g == GetG([s EXCEPT !.CurrentThread = tid], tid) IN
         IF g.err = panic THEN Out([s EXCEPT !.CurrentThread = tid], panic)
         ELSE Out([s EXCEPT !.CurrentThread = tid, !.SelectedGoroutine = g.g], nil)
  ELSE Out(s, "UnknownThread")

\* the body of "for _, bp := range dbp.Breakpoints" in clearTempBreakpoints and
\* Detach: keys are produced in the order ord, a key deleted before it is
\* reached is not produced, and the first error ends the loop
RECURSIVE ClearFrom(_, _, _, _)
ClearFrom(s, ord, i, onlyTemp) ==
  IF i > Len(ord) THEN Out(s, nil)
  ELSE IF ord[i] \notin DOMAIN s.Breakpoints THEN ClearFrom(s, ord, i + 1, onlyTemp)
  ELSE LET bp == s.Breakpoints[ord[i]] IN
       IF onlyTemp /\ ~bp.Temp THEN ClearFrom(s, ord, i + 1, onlyTemp)
       ELSE LET c == ClearBreakpoint(s, bp.Addr) IN
            IF c.err # nil THEN c ELSE ClearFrom(c.s, ord, i + 1, onlyTemp)

\* Process.clearTempBreakpoints(): the outcomes, one per iteration order
clearTempBreakpoints(s) ==
  { LET c == ClearFrom(s, ord, 1, TRUE) IN
    IF c.err # nil THEN c
    ELSE Out([c.s EXCEPT !.Threads =
                [t \in DOMAIN @ |->
                   IF @[t].CurrentBreakpoint # NoBp /\ @[t].CurrentBreakpoint.Temp
                     THEN [@[t] EXCEPT !.CurrentBreakpoint = NoBp] ELSE @[t]]], nil)
    : ord \in Orders(DOMAIN s.Breakpoints) }

\* the closure Detach hands to the Serializer: PtraceDetach, then the kill
DetachFunc(s, kill) ==
  IF execPtraceFunc(s) = panic THEN Out(s, panic)
  ELSE Out(IF kill THEN Logged(Logged(s, "detach"), "kill") ELSE Logged(s, "detach"), nil)

\* Process.Detach(kill): the outcomes
Detach(s, kill) ==
  UNION { IF h.err # nil THEN {h}
          ELSE IF kill THEN {DetachFunc(h.s, kill)}
          ELSE { LET c == ClearFrom(h.s, ord, 1, FALSE) IN
                 IF c.err # nil THEN c ELSE DetachFunc(c.s, kill)
                 : ord \in Orders(DOMAIN h.s.Breakpoints) }
          : h \in (IF Running(s) THEN Halt(s) ELSE {Out(s, nil)}) }

\* Process.RequestManualStop()
RequestManualStop(s) == Out([s EXCEPT !.halt = TRUE], nil)

\* Breakpoint.checkCondition(thread)
checkCondition(s, bp, t) ==
  IF bp.Cond = NoCond THEN TRUE
  ELSE LET g == GetG(s, t) IN g.err = nil /\ g.g.Id = bp.Cond

\* Thread.Step(): with a latched breakpoint, uninstall it, single-step over the
\* original instruction and reinstall it; without one, execute what is at PC
ThreadStep(s, t) ==
  LET cb == s.Threads[t].CurrentBreakpoint IN
  IF execPtraceFunc(s) = panic THEN Out(s, panic)
  ELSE IF blocked(s, t) THEN Out(s, "ThreadBlocked")
  ELSE IF cb # NoBp /\ s.mem[cb.Addr] # Trap THEN Out(s, "NotInstalled")
  ELSE LET pc == s.Threads[t].PC
           e  == IF cb = NoBp /\ pc \in Addrs /\ s.mem[pc] = Trap
                   THEN "steptrap" ELSE "step"
       IN Out(Logged([s EXCEPT !.Threads[t].PC = Elsewhere], e), nil)

\* Thread.resume()
ThreadResume(s, t) ==
  IF execPtraceFunc(s) = panic THEN Out([s EXCEPT !.Threads[t].running = TRUE], panic)
  ELSE Out(Logged([s EXCEPT !.Threads[t].running = TRUE,
                            !.Threads[t].CurrentBreakpoint = NoBp,
                            !.Threads[t].PC = Elsewhere], "resume"), nil)

\* Process.postExit()
postExit(s) == [s EXCEPT !.exited = TRUE, !.ptraceChan = "closed"]

\* what the tracee does once resumed, as trapWait reports it
\*   kind "exit":    the process exits
\*   kind "error":   the wait fails
\*   kind "trap":    thread t, now running tasklet g, executes the trap at address at
\*   kind "rtbp":    thread t executes the runtime.breakpoint intrinsic
\*   kind "sigstop": thread t takes the stop signal of a manual stop
\* and, with any stop, the thread in also (0: none) is found stopped at the
\* breakpoint at alsoAt
Events(s) ==
  {[kind |-> k, t |-> 0, g |-> 0, at |-> 0, also |-> 0, alsoAt |-> 0]
     : k \in {"exit", "error"}}
  \cup
  {[kind |-> k, t |-> t, g |-> g, at |-> at, also |-> also, alsoAt |-> alsoAt]
     : k \in {"trap", "rtbp", "sigstop"}, t \in Tids, g \in GIds, at \in Addrs,
       also \in {0} \cup Tids, alsoAt \in Addrs}

\* the events that can happen in state s: a trap is executed only where tracee
\* memory holds one, a stop signal arrives only once requested, two threads
\* never run the same tasklet, and a thread found at a breakpoint runs a tasklet
Possible(s, ev) ==
  ev.kind \in {"trap", "rtbp", "sigstop"} =>
    /\ \A u \in Tids \ {ev.t} : s.Threads[u].g # ev.g
    /\ IF ev.kind = "trap" THEN s.mem[ev.at] = Trap ELSE ev.at = 0
    /\ ev.kind = "sigstop" => s.halt
    /\ IF ev.also = 0 THEN ev.alsoAt = 0
       ELSE /\ ev.also # ev.t
            /\ s.Threads[ev.also].g # 0
            /\ ev.alsoAt \in DOMAIN s.Breakpoints
            /\ s.mem[ev.alsoAt] = Trap

\* Thread.SetCurrentBreakpoint() of a thread that executed the trap at address at
SetCurrentBreakpoint(s, t, at) ==
  IF at \in DOMAIN s.Breakpoints
    THEN [s EXCEPT !.Threads[t].CurrentBreakpoint = s.Breakpoints[at],
                   !.Threads[t].PC = at]
  ELSE [s EXCEPT !.Threads[t].PC = at + BreakpointSize]

\* Process.handleBreakpointOnThread(id), called by trapWait on a trap
handleBreakpointOnThread(s, ev) ==
  LET s1 == IF ev.kind = "trap" THEN SetCurrentBreakpoint(s, ev.t, ev.at) ELSE s IN
  IF s1.Threads[ev.t].CurrentBreakpoint # NoBp \/ s1.halt THEN Out(s1, nil)
  ELSE IF ev.kind = "rtbp" THEN Out(Logged(s1, "step"), nil)
  ELSE Out(s1, "NoBreakpoint")

\* Process.trapWait(-1)
trapWait(s, ev) ==
  IF ev.kind = "exit" THEN Out(postExit(s), "ProcessExited")
  ELSE IF ev.kind = "error" THEN Out(s, "WaitError")
  ELSE LET s1 == [s EXCEPT !.Threads[ev.t].running = FALSE, !.Threads[ev.t].g = ev.g] IN
       IF ev.kind = "sigstop" THEN Out(s1, nil)
       ELSE handleBreakpointOnThread(s1, ev)

\* Process.setExtraBreakpoints(): the other threads found stopped at a
\* breakpoint of the table latch it
setExtraBreakpoints(s, ev) ==
  IF ev.also = 0 THEN s ELSE SetCurrentBreakpoint(s, ev.also, ev.alsoAt)

\* Process.run(fn), up to the call of fn
runEnter(s) ==
  LET s1 == [s EXCEPT !.allGCache = {}] IN
  IF s1.exited THEN Out(s1, "process has already exited")
  ELSE Out([s1 EXCEPT !.Threads =
              [t \in DOMAIN @ |-> [@[t] EXCEPT !.CurrentBreakpoint = NoBp]]], nil)

\* the closure continueOnce passes to run
continueOnceFunc(s, ev) ==
  LET w == trapWait(s, ev) IN
  IF w.err # nil THEN {w}
  ELSE { IF h.err # nil THEN h
         ELSE LET sw == SwitchThread(h.s, ev.t) IN
              IF sw.err = panic THEN sw
              ELSE Out(setExtraBreakpoints(sw.s, ev), nil)
         : h \in Halt(w.s) }

\* continueOnce, first loop: step every latched thread over its breakpoint
RECURSIVE StepOverFrom(_, _, _)
StepOverFrom(s, ord, i) ==
  IF i > Len(ord) THEN Out(s, nil)
  ELSE IF s.Threads[ord[i]].CurrentBreakpoint = NoBp THEN StepOverFrom(s, ord, i + 1)
  ELSE LET st == ThreadStep(s, ord[i]) IN
       IF st.err # nil THEN st
       ELSE StepOverFrom([st.s EXCEPT !.Threads[ord[i]].CurrentBreakpoint = NoBp],
                         ord, i + 1)

\* continueOnce, second loop: resume every thread
RECURSIVE ResumeFrom(_, _, _)
ResumeFrom(s, ord, i) ==
  IF i > Len(ord) THEN Out(s, nil)
  ELSE LET r == ThreadResume(s, ord[i]) IN
       IF r.err # nil THEN r ELSE ResumeFrom(r.s, ord, i + 1)

\* Process.continueOnce(): the outcomes when the tracee then does ev
continueOnce(s, ev) ==
  UNION { LET so == StepOverFrom(s, o1, 1) IN
          IF so.err # nil THEN {so}
          ELSE UNION { LET rs == ResumeFrom(so.s, o2, 1) IN
                       IF rs.err # nil THEN {rs}
                       ELSE LET r == runEnter(rs.s) IN
                            IF r.err # nil THEN {r} ELSE continueOnceFunc(r.s, ev)
                       : o2 \in Orders(DOMAIN s.Threads) }
          : o1 \in Orders(DOMAIN s.Threads) }

\* runBreakpointConditions that looks for a triggered user breakpoint first
runBreakpointConditionsUserFirst(s) ==
  LET s1 == [s EXCEPT !.Threads =
               [t \in DOMAIN s.Threads |->
                  IF s.Threads[t].CurrentBreakpoint = NoBp THEN s.Threads[t]
                  ELSE [s.Threads[t] EXCEPT !.BreakpointConditionMet =
                          checkCondition(s, s.Threads[t].CurrentBreakpoint, t)]]]
      trigs == {t \in DOMAIN s1.Threads :
                  onTriggeredBreakpoint(s1.Threads[t])
                  /\ ~onTriggeredTempBreakpoint(s1.Threads[t])}
      temps == {t \in DOMAIN s1.Threads : onTriggeredTempBreakpoint(s1.Threads[t])}
  IN IF trigs # {} THEN {SwitchThread(s1, t) : t \in trigs}
     ELSE IF temps # {} THEN {SwitchThread(s1, t) : t \in temps}
     ELSE {Out(s1, nil)}

\* Process.runBreakpointConditions(): the outcomes, one per choice of the first
\* triggered threads the range over Threads meets
runBreakpointConditions(s) ==
  LET s1 == [s EXCEPT !.Threads =
               [t \in DOMAIN s.Threads |->
                  IF s.Threads[t].CurrentBreakpoint = NoBp THEN s.Threads[t]
                  ELSE [s.Threads[t] EXCEPT !.BreakpointConditionMet =
                          checkCondition(s, s.Threads[t].CurrentBreakpoint, t)]]]
      temps == {t \in DOMAIN s1.Threads : onTriggeredTempBreakpoint(s1.Threads[t])}
      trigs == {t \in DOMAIN s1.Threads :
                  onTriggeredBreakpoint(s1.Threads[t])
                  /\ ~onTriggeredTempBreakpoint(s1.Threads[t])}
      cth == s1.Threads[s1.CurrentThread]
  IN IF temps # {}
       THEN IF ~onTriggeredTempBreakpoint(cth)
              THEN {SwitchThread(s1, t) : t \in temps} ELSE {Out(s1, nil)}
     ELSE IF trigs # {}
       THEN IF ~onTriggeredBreakpoint(cth)
              THEN {SwitchThread(s1, t) : t \in trigs} ELSE {Out(s1, nil)}
     ELSE {Out(s1, nil)}

Ret(s, e, done, where) == [s |-> s, err |-> e, done |-> done, site |-> where]

\* a loop of Continue that returns at every stop, whatever the conditions say
ContinueDecideAnyStop(s) ==
  {Ret(r.s, r.err, TRUE, IF r.err # nil THEN "runBreakpointConditions" ELSE "exitAnyway")
     : r \in runBreakpointConditions(s)}

\* what one pass of the loop of Continue does after continueOnce returned nil
\* in state s: the return statement it reaches (done), or another pass
ContinueDecide(s) ==
  LET exitAnyway == s.Threads[s.CurrentThread].CurrentBreakpoint = NoBp IN
  UNION { IF r.err # nil THEN {Ret(r.s, r.err, TRUE, "runBreakpointConditions")}
          ELSE LET cth == r.s.Threads[r.s.CurrentThread] IN
               IF onTriggeredBreakpoint(cth)
                 THEN IF onTriggeredTempBreakpoint(cth)
                        THEN { IF c.err # nil
                                 THEN Ret(c.s, c.err, TRUE, "clearTempBreakpoints")
                               ELSE Ret(c.s, nil, TRUE, "temp")
                               : c \in clearTempBreakpoints(r.s) }
                      ELSE {Ret(r.s, nil, TRUE, "breakpoint")}
               ELSE IF exitAnyway THEN {Ret(r.s, nil, TRUE, "exitAnyway")}
               ELSE {Ret(r.s, nil, FALSE, nil)}
          : r \in runBreakpointConditions(s) }

\* Process.Continue(): one pass of its loop, when the tracee does ev
Continue(s, ev) ==
  UNION { IF c.err # nil THEN {Ret(c.s, c.err, TRUE, "continueOnce")}
          ELSE ContinueDecide(c.s)
          : c \in continueOnce(s, ev) }

\* the closure Process.Step passes to run: step every thread that is not blocked
RECURSIVE StepAllFrom(_, _, _)
StepAllFrom(s, ord, i) ==
  IF i > Len(ord) THEN Out(s, nil)
  ELSE IF blocked(s, ord[i]) THEN StepAllFrom(s, ord, i + 1)
  ELSE LET st == ThreadStep(s, ord[i]) IN
       IF st.err # nil THEN st ELSE StepAllFrom(st.s, ord, i + 1)

\* Process.Step(): the outcomes
Step(s) ==
  LET r == runEnter(s) IN
  IF r.err # nil THEN {r}
  ELSE {StepAllFrom(r.s, ord, 1) : ord \in Orders(DOMAIN s.Threads)}

(* ------------------------- tasklets and Next --------------------------- *)
\* G.chanRecvReturnAddr(dbp): where tasklet g resumes after its channel receive
\* (tasklets 2 and 3 wait on the same channel)
RecvRet(g) == (g \div 2) % (MaxAddr + 1)

\* the thread that runs tasklet g and is not blocked, 0 if there is none
ThreadOf(s, g) ==
  IF \E t \in DOMAIN s.Threads : s.Threads[t].g = g
    THEN CHOOSE t \in DOMAIN s.Threads : s.Threads[t].g = g
  ELSE 0

\* the tasklets that run on no thread
OffThread(s) == {g \in GIds : ThreadOf(s, g) = 0}

NoFault == [kind |-> "none", g |-> 0]

\* the reads of tracee memory that can fail in GoroutinesInfo and in
\* setChanRecvBreakpoints (for tasklet g).  The failed read of the allgs
\* pointer hands back no bytes ("allgs"), or a buffer that does not hold the
\* pointer, from which the first parseG fails ("allgsData")
Faults ==
  {[kind |-> k, g |-> 0] : k \in {"allglen", "allgs", "allgsData", "parseG"}}
  \cup {[kind |-> k, g |-> g] : k \in {"NullAddr", "retaddr"}, g \in GIds}

GOut(s, e, allg) == [s |-> s, err |-> e, allg |-> allg]

\* Process.GoroutinesInfo(), when the tasklets in W are blocked in a channel
\* receive and the read named by fault fails
GoroutinesInfo(s, W, fault) ==
  IF s.allGCache # {} THEN GOut(s, nil, s.allGCache)
  ELSE IF execPtraceFunc(s) = panic THEN GOut(s, panic, {})
  ELSE IF fault.kind = "allglen" THEN GOut(s, "UnreadableMemory", {})
  ELSE IF fault.kind = "allgs" THEN GOut(s, panic, {})
  ELSE IF fault.kind = "allgsData" THEN GOut(s, "UnreadableMemory", {})
  ELSE IF fault.kind = "parseG" THEN GOut(s, "UnreadableMemory", {})
  ELSE LET allg == {MkG(g, ThreadOf(s, g), g \in W) : g \in GIds} IN
       GOut([s EXCEPT !.allGCache = allg], nil, allg)

\* the loop of setChanRecvBreakpoints over allg, from tasklet g on
RECURSIVE ChanRecvFrom(_, _, _, _)
ChanRecvFrom(s, allg, g, fault) ==
  IF g > NumG THEN Out(s, nil)
  ELSE IF ~\E x \in allg : x.Id = g /\ x.recv THEN ChanRecvFrom(s, allg, g + 1, fault)
  ELSE IF fault = [kind |-> "NullAddr", g |-> g] THEN ChanRecvFrom(s, allg, g + 1, fault)
  ELSE IF fault = [kind |-> "retaddr", g |-> g] THEN Out(s, "UnreadableMemory")
  ELSE LET b == SetTempBreakpoint(s, RecvRet(g)) IN
       IF b.err \in {nil, "BreakpointExists"} THEN ChanRecvFrom(b.s, allg, g + 1, fault)
       ELSE b

\* Process.setChanRecvBreakpoints()
setChanRecvBreakpoints(s, W, fault) ==
  LET gi == GoroutinesInfo(s, W, fault) IN
  IF gi.err # nil THEN Out(gi.s, gi.err)
  ELSE ChanRecvFrom(gi.s, gi.allg, 1, fault)

\* what Thread.setNextBreakpoints can return
NextResults ==
  {nil, "ThreadBlocked", "NoReturnAddr", "GoroutineExitingSelf",
   "GoroutineExitingOther", "UnreadableMemory"}

\* Thread.setNextBreakpoints(): temp breakpoints at the addresses in at (the
\* successor lines and the return address), then the result res
RECURSIVE setNextFrom(_, _, _, _)
setNextFrom(s, at, a, res) ==
  IF a > MaxAddr THEN Out(s, res)
  ELSE IF a \notin at THEN setNextFrom(s, at, a + 1, res)
  ELSE LET b == SetTempBreakpoint(s, a) IN
       IF b.err \in {nil, "BreakpointExists"} THEN setNextFrom(b.s, at, a + 1, res)
       ELSE b

setNextBreakpoints(s, at, res) == setNextFrom(s, at, 0, res)

\* the inputs of one call of Next: what the tracee's tasklets are doing, which
\* read fails, and what setNextBreakpoints finds
NextInputs(s) ==
  {[W |-> W, fault |-> NoFault, at |-> at, res |-> res]
     : W \in SUBSET OffThread(s),
       at \in {x \in SUBSET Addrs : Cardinality(x) <= 1},
       res \in NextResults}
  \cup
  {[W |-> OffThread(s), fault |-> f, at |-> {}, res |-> nil] : f \in Faults}

NOut(s, e, cont) == [s |-> s, err |-> e, cont |-> cont]

HasTemp(s) == \E a \in DOMAIN s.Breakpoints : s.Breakpoints[a].Temp

\* Process.Next() after its "next while nexting" check, up to its call of
\* Continue (cont): the outcomes
NextBody(s, in) ==
  LET g == GetG(s, s.CurrentThread) IN
  IF g.err # nil THEN {NOut(s, g.err, FALSE)}
  ELSE LET c == setChanRecvBreakpoints(s, in.W, in.fault) IN
  IF c.err # nil THEN {NOut(c.s, c.err, FALSE)}
  ELSE LET n == setNextBreakpoints(c.s, in.at, in.res) IN
  IF n.err \notin {nil, "ThreadBlocked", "NoReturnAddr",
                   "GoroutineExitingSelf", "GoroutineExitingOther"}
    THEN IF n.err = panic THEN {NOut(n.s, panic, FALSE)}
         ELSE {NOut(k.s, IF k.err = panic THEN panic ELSE n.err, FALSE)
                 : k \in clearTempBreakpoints(n.s)}
  ELSE LET goroutineExiting == n.err = "GoroutineExitingSelf" IN
       {NOut(IF goroutineExiting THEN n.s
             ELSE [n.s EXCEPT !.Breakpoints =
                     [a \in DOMAIN @ |->
                        IF @[a].Temp THEN [@[a] EXCEPT !.Cond = g.g.Id] ELSE @[a]]],
             nil, TRUE)}

\* Next without the check for temp breakpoints already in the table
NextUnchecked(s, in) == NextBody(s, in)

\* Process.Next(), up to its call of Continue (cont): the outcomes
Next(s, in) ==
  IF HasTemp(s) THEN {NOut(s, "next while nexting", FALSE)}
  ELSE NextBody(s, in)

\* the result of FindGoroutine
FOut(s, e, g) == [s |-> s, err |-> e, g |-> g]

\* Process.FindGoroutine(gid), with the inputs of GoroutinesInfo
FindGoroutine(s, gid, W, fault) ==
  IF gid = -1 THEN FOut(s, nil, s.SelectedGoroutine)
  ELSE LET gi == GoroutinesInfo(s, W, fault) IN
       IF gi.err # nil THEN FOut(gi.s, gi.err, NoG)
       ELSE IF \E x \in gi.allg : x.Id = gid
         THEN FOut(gi.s, nil, CHOOSE x \in gi.allg : x.Id = gid)
       ELSE FOut(gi.s, "UnknownGoroutine", NoG)

\* Process.SwitchGoroutine(gid), with the inputs of GoroutinesInfo
SwitchGoroutine(s, gid, W, fault) ==
  LET f == FindGoroutine(s, gid, W, fault) IN
  IF f.err # nil THEN Out(f.s, f.err)
  ELSE IF f.g = NoG THEN Out(f.s, nil)
  ELSE IF f.g.thread # 0 THEN SwitchThread(f.s, f.g.thread)
  ELSE Out([f.s EXCEPT !.SelectedGoroutine = f.g], nil)

\* the thread ids a caller may pass to SwitchThread: one is not in the map
SwitchTids == Tids \cup {NumThreads + 1}

\* the tasklet ids a caller may pass to SwitchGoroutine: -1, and one that no
\* tasklet has
SwitchGids == {-1} \cup GIds \cup {NumG + 1}

\* the inputs of GoroutinesInfo when called on its own: which tasklets are
\* blocked in a channel receive, and which of its reads fails
InfoInputs(s) ==
  {[W |-> W, fault |-> f]
     : W \in SUBSET OffThread(s),
       f \in {NoFault} \cup {x \in Faults : x.g = 0}}

(* ------------------------------ actions -------------------------------- *)
\* the caller holds control and calls a public operation
Begin == Cur

\* the operation returns o to the caller, or aborts the debugger
Return(name, o) ==
  /\ Commit(o.s)
  /\ op' = IF name \in {"Next", "Continue"} THEN name ELSE "other"
  /\ err' = o.err
  /\ ctl' = IF o.err = panic THEN "aborted" ELSE "idle"
  /\ site' = nil

DoSetBreakpoint ==
  /\ ctl = "idle"
  /\ breakpointIDCounter < MaxID
  /\ \E addr \in Addrs : Return("SetBreakpoint", SetBreakpoint(Begin, addr))

DoSetTempBreakpoint ==
  /\ ctl = "idle"
  /\ tempBreakpointIDCounter < MaxID
  /\ \E addr \in Addrs : Return("SetTempBreakpoint", SetTempBreakpoint(Begin, addr))

DoClearBreakpoint ==
  /\ ctl = "idle"
  /\ \E addr \in Addrs \cup {MaxAddr + 1} :
       Return("ClearBreakpoint", ClearBreakpoint(Begin, addr))

DoClearTempBreakpoints ==
  /\ ctl = "idle"
  /\ \E o \in clearTempBreakpoints(Begin) : Return("clearTempBreakpoints", o)

DoDetach ==
  /\ ctl = "idle"
  /\ \E kill \in BOOLEAN : \E o \in Detach(Begin, kill) :
       Return(IF kill THEN "DetachKill" ELSE "Detach", o)

\* RequestManualStop may come from another goroutine of the debugger while
\* Continue waits for the tracee
DoRequestManualStop ==
  /\ ctl # "aborted"
  /\ Commit(RequestManualStop(Cur).s)
  /\ UNCHANGED <<ctl, op, err, site>>

\* Continue is called: its loop starts
DoContinue ==
  /\ ctl = "idle"
  /\ Commit(Begin)
  /\ ctl' = "Continue"
  /\ op' = "Continue"
  /\ err' = nil
  /\ site' = nil

\* Next is called: it returns an error, or goes on into the loop of Continue
DoNext ==
  /\ ctl = "idle"
  /\ \E in \in NextInputs(Begin) : \E o \in Next(Begin, in) :
       /\ o.s.tempBreakpointIDCounter <= MaxID
       /\ IF o.cont
            THEN /\ Commit(o.s)
                 /\ ctl' = "Continue"
                 /\ op' = "Next"
                 /\ err' = nil
                 /\ site' = nil
                         ELSE Return("Next", Out(o.s, o.err))

\* one pass of the loop of Continue (called by the user or by Next): the
\* tracee is resumed, does ev, and Continue returns or goes round again
ContinuePass ==
  /\ ctl = "Continue"
  /\ \E ev \in Events(Cur) :
       /\ Possible(Cur, ev)
       /\ \E o \in Continue(Cur, ev) :
            /\ Commit(o.s)
            /\ UNCHANGED op
            /\ err' = o.err
            /\ ctl' = IF o.err = panic THEN "aborted"
                      ELSE IF o.done THEN "idle" ELSE "Continue"
            /\ site' = o.site

DoStep ==
  /\ ctl = "idle"
  /\ \E o \in Step(Begin) : Return("Step", o)

DoHalt ==
  /\ ctl = "idle"
  /\ \E o \in Halt(Begin) : Return("Halt", o)

DoSwitchThread ==
  /\ ctl = "idle"
  /\ \E tid \in SwitchTids : Return("SwitchThread", SwitchThread(Begin, tid))

DoSwitchGoroutine ==
  /\ ctl = "idle"
  /\ \E gid \in SwitchGids : \E in \in InfoInputs(Begin) :
       Return("SwitchGoroutine", SwitchGoroutine(Begin, gid, in.W, in.fault))

\* a step of a bounded behaviour of the whole debugger
Budget == steps < MaxSteps /\ steps' = steps + 1 /\ UNCHANGED <<ser, loc>>

\* a step of the breakpoint table on its own (bounded by MaxID)
Free == UNCHANGED <<steps, ser, loc>>

\* the breakpoint table on its own: the four operations that change it
NextBp ==
  \/ Free /\ DoSetBreakpoint
  \/ Free /\ DoSetTempBreakpoint
  \/ Free /\ DoClearBreakpoint
  \/ Free /\ DoClearTempBreakpoints

SpecBp == Init /\ [][NextBp]_vars

\* SetBreakpoint and ClearBreakpoint alone
NextSetClear ==
  \/ Free /\ DoSetBreakpoint
  \/ Free /\ DoClearBreakpoint

SpecSetClear == Init /\ [][NextSetClear]_vars

\* the debugger: every public operation, called one at a time
NextStep ==
  \/ Budget /\ DoSetBreakpoint
  \/ Budget /\ DoSetTempBreakpoint
  \/ Budget /\ DoClearBreakpoint
  \/ Budget /\ DoContinue
  \/ Budget /\ DoNext
  \/ Budget /\ ContinuePass
  \/ Budget /\ DoStep
  \/ Budget /\ DoHalt
  \/ Budget /\ DoDetach
  \/ Budget /\ DoRequestManualStop

Spec == Init /\ [][NextStep]_vars

(* ------------------ the Serializer and its callers --------------------- *)
\* as if the send on ptraceChan did not wait for the worker to receive
AckReceiversBuffered(pcs) == {c \in Callers : pcs[c] \in {"send", "recv"}}

\* the callers blocked in "<-dbp.ptraceDoneChan": their send was received
AckReceivers(pcs) == {c \in Callers : pcs[c] = "recv"}

\* a step of the Serializer leaves the Process fields alone
SerOnly == Commit(Cur) /\ UNCHANGED <<op, err, site, steps, loc>>

\* a goroutine calls execPtraceFunc(fn) and reaches the send
SerCall ==
  /\ ctl = "idle"
  /\ \E c \in Callers :
       /\ ser.pcs[c] = "idle" /\ ser.calls[c] < MaxCalls
       /\ ser' = [ser EXCEPT !.pcs[c] = "send", !.calls[c] = @ + 1]
  /\ SerOnly /\ UNCHANGED ctl

\* "dbp.ptraceChan <- fn" meets "for fn := range dbp.ptraceChan"
SerSend ==
  /\ ctl = "idle" /\ ptraceChan = "open" /\ ser.wpc = "range"
  /\ \E c \in Callers :
       /\ ser.pcs[c] = "send"
       /\ ser' = [ser EXCEPT !.pcs[c] = "recv", !.wpc = "run",
                              !.cur = <<c, ser.calls[c]>>,
                              !.accepted = Append(@, <<c, ser.calls[c]>>)]
  /\ SerOnly /\ UNCHANGED ctl

\* a send on the closed ptraceChan aborts the debugger
SerSendClosed ==
  /\ ctl = "idle" /\ ptraceChan = "closed"
  /\ \E c \in Callers : ser.pcs[c] = "send"
  /\ SerOnly /\ UNCHANGED ser /\ ctl' = "aborted"

\* the worker runs fn() to its end
SerRun ==
  /\ ctl = "idle" /\ ser.wpc = "run"
  /\ ser' = [ser EXCEPT !.wpc = "ack", !.ran = Append(@, ser.cur)]
  /\ SerOnly /\ UNCHANGED ctl

\* "dbp.ptraceDoneChan <- nil" meets a caller's "<-dbp.ptraceDoneChan"
SerAck ==
  /\ ctl = "idle" /\ ptraceChan = "open" /\ ser.wpc = "ack"
  /\ \E c \in AckReceivers(ser.pcs) :
       ser' = [ser EXCEPT !.pcs[c] = "idle", !.wpc = "range",
                          !.rets = @ \cup {<<c, ser.calls[c]>>}]
  /\ SerOnly /\ UNCHANGED ctl

\* the worker's send on the closed ptraceDoneChan aborts the debugger
SerAckClosed ==
  /\ ctl = "idle" /\ ptraceChan = "closed" /\ ser.wpc = "ack"
  /\ SerOnly /\ UNCHANGED ser /\ ctl' = "aborted"

\* a receive on the closed ptraceDoneChan returns at once
SerRecvClosed ==
  /\ ctl = "idle" /\ ptraceChan = "closed"
  /\ \E c \in Callers :
       /\ ser.pcs[c] = "recv"
       /\ ser' = [ser EXCEPT !.pcs[c] = "idle", !.rets = @ \cup {<<c, ser.calls[c]>>}]
  /\ SerOnly /\ UNCHANGED ctl

\* the range over the closed ptraceChan ends: handlePtraceFuncs returns
SerStop ==
  /\ ctl = "idle" /\ ptraceChan = "closed" /\ ser.wpc = "range"
  /\ ser' = [ser EXCEPT !.wpc = "stopped"]
  /\ SerOnly /\ UNCHANGED ctl

\* a goroutine that is not in execPtraceFunc sees the tracee exit: postExit
SerPostExit ==
  /\ ctl = "idle" /\ ptraceChan = "open"
  /\ \E c \in Callers : ser.pcs[c] = "idle"
  /\ Commit(postExit(Cur))
  /\ UNCHANGED <<ctl, op, err, site, steps, ser, loc>>

\* the steps of the worker goroutine
SerWorker == SerRun \/ SerAck \/ SerAckClosed \/ SerStop

NextSer ==
  \/ SerCall
  \/ SerSend
  \/ SerSendClosed
  \/ SerRun
  \/ SerAck
  \/ SerAckClosed
  \/ SerRecvClosed
  \/ SerStop
  \/ SerPostExit

\* the Go scheduler lets the worker run when it can
SpecSer == Init /\ [][NextSer]_vars /\ WF_vars(SerWorker)

(* ---------------------- FindFunctionLocation ---------------------------- *)
\* the function names of a symbol table; "" is no function
FuncNames == {"f", "f.func1", "g"}

\* strings.Contains(a, b) on these names
Contains(a, b) == a = b \/ (a = "f.func1" /\ b = "f")

\* the line tables of one .go file: the function each line belongs to, if any
LineTables == [1..MaxLine -> FuncNames \cup {""}]

\* goSymTable.LookupFunc(funcName).Entry, as the line it starts on (0: no such
\* function)
EntryLine(tab, funcName) ==
  IF \E l \in DOMAIN tab : tab[l] = funcName
    THEN CHOOSE l \in DOMAIN tab :
           tab[l] = funcName /\ \A k \in DOMAIN tab : tab[k] = funcName => l <= k
  ELSE 0

\* the pc of the first instruction of a line
LinePC(line) == 16 * line

\* goSymTable.LineToPC(filename, lineno): past the end of the table, and on a
\* line without code, there is no function
LineToPC(tab, lineno) ==
  IF lineno \in DOMAIN tab /\ tab[lineno] # ""
    THEN [pc |-> LinePC(lineno), fn |-> tab[lineno]]
  ELSE [pc |-> 0, fn |-> ""]

\* FindFunctionLocation(funcName, true, _) up to its loop
LocEnter(tab, funcName, isGo) ==
  LET e == EntryLine(tab, funcName) IN
  IF e = 0 THEN [Loc0 EXCEPT !.pc = "failed", !.tab = tab, !.funcName = funcName]
  ELSE IF ~isGo
    THEN [Loc0 EXCEPT !.pc = "returned", !.tab = tab, !.funcName = funcName,
                      !.entry = e, !.result = LinePC(e)]
  ELSE [Loc0 EXCEPT !.pc = "loop", !.tab = tab, !.funcName = funcName,
                    !.entry = e, !.lineno = e]

\* one iteration of the loop of FindFunctionLocation.  Every line past the end
\* of the table is like the first one, so lineno stops counting there.
LocIterate(l) ==
  LET n == IF l.lineno > MaxLine THEN l.lineno ELSE l.lineno + 1
      r == LineToPC(l.tab, n)
  IN IF r.fn = "" THEN [l EXCEPT !.lineno = n]
     ELSE IF r.fn # l.funcName
       THEN IF Contains(r.fn, l.funcName) THEN [l EXCEPT !.lineno = n]
            ELSE [l EXCEPT !.lineno = n, !.pc = "returned", !.result = LinePC(l.entry)]
     ELSE [l EXCEPT !.lineno = n, !.pc = "returned", !.result = r.pc]

\* the rest of the Process is not touched
LocOnly == Commit(Cur) /\ UNCHANGED <<ctl, op, err, site, steps, ser>>

LocCall ==
  /\ loc.pc = "idle"
  /\ \E tab \in LineTables, funcName \in FuncNames, isGo \in BOOLEAN :
       loc' = LocEnter(tab, funcName, isGo)
  /\ LocOnly

LocStep ==
  /\ loc.pc = "loop"
  /\ loc' = LocIterate(loc)
  /\ LocOnly

NextLoc ==
  \/ LocCall
  \/ LocStep

SpecLoc == Init /\ [][NextLoc]_vars /\ WF_vars(LocStep)

\* selecting threads and tasklets between runs of the tracee
MaxSwitchSteps == 5

SwitchBudget == steps < MaxSwitchSteps /\ steps' = steps + 1 /\ UNCHANGED <<ser, loc>>

NextSwitch ==
  \/ SwitchBudget /\ DoSetBreakpoint
  \/ SwitchBudget /\ DoClearBreakpoint
  \/ SwitchBudget /\ DoContinue
  \/ SwitchBudget /\ ContinuePass
  \/ SwitchBudget /\ DoSwitchThread
  \/ SwitchBudget /\ DoSwitchGoroutine

SpecSwitch == Init /\ [][NextSwitch]_vars

\* runBreakpointConditions on its own, after any stop: every thread runs a
\* tasklet of its own or none, has latched a breakpoint of the table or none,
\* and holds the condition result of its previous stop
Latches ==
  {NoBp} \cup
  {[Addr |-> a, OriginalData |-> OrigByte(a), ID |-> a + 1, Temp |-> tmp, Cond |-> c]
     : a \in Addrs, tmp \in BOOLEAN, c \in {NoCond} \cup GIds}

InitCond ==
  /\ \E L \in [Tids -> Latches], G \in [Tids -> {0} \cup GIds], M \in [Tids -> BOOLEAN] :
       /\ \A t, u \in Tids :
            /\ (t # u /\ G[t] # 0) => G[t] # G[u]
            /\ L[t].Addr = L[u].Addr => L[t] = L[u]
            /\ L[t] # NoBp => G[t] # 0
       /\ Threads = [t \in Tids |->
                       [running |-> FALSE, CurrentBreakpoint |-> L[t],
                        BreakpointConditionMet |-> M[t],
                        PC |-> L[t].Addr, g |-> G[t]]]
       /\ Breakpoints = [a \in {L[t].Addr : t \in {u \in Tids : L[u] # NoBp}} |->
                           (CHOOSE b \in {L[t] : t \in Tids} : b.Addr = a)]
  /\ mem = [a \in Addrs |-> IF a \in DOMAIN Breakpoints THEN Trap ELSE OrigByte(a)]
  /\ CurrentThread \in Tids
  /\ SelectedGoroutine =
       IF Threads[CurrentThread].g = 0 THEN NoG
       ELSE MkG(Threads[CurrentThread].g, CurrentThread, FALSE)
  /\ allGCache = {}
  /\ breakpointIDCounter = MaxAddr + 1
  /\ tempBreakpointIDCounter = MaxAddr + 1
  /\ halt = FALSE
  /\ exited = FALSE
  /\ ptraceChan = "open"
  /\ ctl = "idle"
  /\ op = "other"
  /\ err = nil
  /\ site = nil
  /\ steps = 0
  /\ ser = Ser0
  /\ loc = Loc0

DoRunBreakpointConditions ==
  /\ ctl = "idle"
  /\ steps = 0 /\ steps' = 1
  /\ UNCHANGED <<ser, loc>>
  /\ \E o \in runBreakpointConditions(Begin) : Return("runBreakpointConditions", o)

SpecCond == InitCond /\ [][DoRunBreakpointConditions]_vars

(* ------------------------------ claims --------------------------------- *)
OrigMem == [a \in Addrs |-> OrigByte(a)]

\* C2: every entry of the breakpoint table is stored under its own address and
\* has the trap pattern in tracee memory at that address, and no two entries
\* have the same address.
C2_TableInstalled ==
  /\ \A a \in DOMAIN Breakpoints : Breakpoints[a].Addr = a /\ mem[a] = Trap
  /\ \A a, b \in DOMAIN Breakpoints :
       Breakpoints[a].Addr = Breakpoints[b].Addr => a = b

\* C3: from any reachable state, for an address that is not in the table, a
\* successful SetBreakpoint(addr) followed by ClearBreakpoint(addr) leaves the
\* table and every byte of tracee memory as they were.
C3_SetClearIdentity ==
  \A addr \in Addrs \ DOMAIN Breakpoints :
    LET o1 == SetBreakpoint(Cur, addr) IN
    o1.err = nil =>
      LET o2 == ClearBreakpoint(o1.s, addr) IN
      o2.s.Breakpoints = Breakpoints /\ o2.s.mem = mem

C5_ClearAbsent ==
  \A addr \in (Addrs \cup {MaxAddr + 1}) \ DOMAIN Breakpoints :
    LET o == ClearBreakpoint(Cur, addr) IN
    o.err = "NoBreakpoint" /\ o.s.Breakpoints = Breakpoints /\ o.s.mem = mem

\* C6: for every address pc that has an entry in the table, FindBreakpoint(pc)
\* and FindBreakpoint(pc + BreakpointSize) both return the entry whose address
\* is pc.
C6_FindSameEntry ==
  \A a \in DOMAIN Breakpoints :
    /\ FindBreakpoint(Cur, a) = [ok |-> TRUE, bp |-> Breakpoints[a]]
    /\ FindBreakpoint(Cur, a + BreakpointSize) = [ok |-> TRUE, bp |-> Breakpoints[a]]


\* does the log of an outcome show a thread single-stepped or resumed
Moved(s) == \E i \in DOMAIN s.log : s.log[i] \in Moves

\* the errors that say the process has exited
ExitedErrors == {"ProcessExited", "process has already exited"}

\* Continue or Next has just returned to the caller without error
ContinueReturnedNil == ctl = "idle" /\ op \in {"Continue", "Next"} /\ err = nil

\* C1: after Next returns, whichever stop ended its Continue, the table holds
\* no breakpoint whose Temp flag is set.  (The claim covers the returns with
\* an error too; it is stated here for the returns without one.)
C1_NoTempAfterNext ==
  (ctl = "idle" /\ op = "Next" /\ err = nil) => ~HasTemp(Cur)

PublicOutcomes ==
  UNION {{Out(o.s, o.err) : o \in Continue(Cur, ev)}
           : ev \in {e \in Events(Cur) : Possible(Cur, e)}}
  \cup UNION {{Out(o.s, o.err) : o \in Next(Cur, in)} : in \in NextInputs(Cur)}
  \cup Step(Cur)
  \cup {SetBreakpoint(Cur, a) : a \in Addrs}
  \cup {ClearBreakpoint(Cur, a) : a \in Addrs}
  \cup Halt(Cur)
  \cup Detach(Cur, TRUE) \cup Detach(Cur, FALSE)

\* C8: once postExit has run, every public operation that touches the tracee
\* returns a process-exited error, steps or resumes no thread, and does not
\* abort on the closed request channel.
C8_ExitedShortCircuits ==
  (exited /\ ctl = "idle") =>
    \A o \in PublicOutcomes : o.err \in ExitedErrors /\ ~Moved(o.s)

\* C9: with a temp breakpoint in the table, Next returns an error and changes
\* nothing: table, memory, latches, CurrentThread, SelectedGoroutine and the
\* tasklet cache are as before, and no thread is stepped or resumed.
C9_NextWhileNexting ==
  (ctl = "idle" /\ HasTemp(Cur)) =>
    \A in \in NextInputs(Cur) : \A o \in Next(Cur, in) :
      /\ o.err \notin {nil, panic}
      /\ ~o.cont
      /\ o.s = Cur

\* C9 happens: Next was called with a temp breakpoint in the table
C9_Witness ==
  ctl = "idle" /\ op = "Next" /\ err = "next while nexting" /\ HasTemp(Cur)

\* the events of a log, in order, are halts, then clears, then the detach
DetachOrder(l) ==
  /\ Len(l) > 0 /\ l[Len(l)] = "detach"
  /\ \A i, j \in DOMAIN l :
       i < j => <<l[i], l[j]>> \in {<<"halt", "clear">>, <<"halt", "detach">>,
                                   <<"clear", "detach">>}

\* C10: Detach(kill=false), whatever breakpoints the table holds: halts if a
\* thread is running, then clears every entry and restores the original bytes
\* at their addresses, then detaches; it returns nil with the table empty and
\* sends no kill.  (Stated for a live process whose table is consistent.)
C10_DetachClearsAll ==
  (ctl = "idle" /\ ~exited /\ C2_TableInstalled) =>
    \A o \in Detach(Cur, FALSE) :
      /\ o.err = nil
      /\ o.s.Breakpoints = << >>
      /\ \A a \in DOMAIN Breakpoints : o.s.mem[a] = Breakpoints[a].OriginalData
      /\ DetachOrder(o.s.log)
      /\ ~Running(o.s)

\* the calls of Next on the tasklet of CurrentThread while two other tasklets
\* are blocked in a channel receive and setNextBreakpoints reports no exit
TwoBlockedNexts ==
  {in \in NextInputs(Cur) :
     /\ Cardinality(in.W) = 2
     /\ in.fault = NoFault
     /\ in.res \in {nil, "ThreadBlocked", "NoReturnAddr"}}

\* after Next went into Continue in state s: a tasklet of W, not the one Next
\* was called on, reaches the return address of its channel receive
RecvResumes(s, W) ==
  {ev \in Events(s) :
     /\ Possible(s, ev)
     /\ ev.kind = "trap" /\ ev.also = 0
     /\ ev.g \in W /\ ev.g # Threads[CurrentThread].g
     /\ ev.at = RecvRet(ev.g)}

\* C11: with two tasklets blocked in a channel receive and Next called on a
\* third one, when a blocked tasklet reaches its receive's return address the
\* temp breakpoint there is triggered for the thread that hit it, Continue
\* returns at that stop, and every temp breakpoint is cleared.
C11_ChanRecvTempFires ==
  (ctl = "idle" /\ ~exited /\ C2_TableInstalled) =>
    \A in \in TwoBlockedNexts : \A n \in Next(Cur, in) :
      n.cont => \A ev \in RecvResumes(n.s, in.W) : \A o \in Continue(n.s, ev) :
        /\ o.done /\ o.err = nil
        /\ o.site = "temp"
        /\ ~HasTemp(o.s)

\* C12: in every execution of Continue (called directly or by Next) and of
\* Step, the tasklet cache is empty when the first thread is single-stepped or
\* resumed.
C12_CacheClearedBeforeMove ==
  /\ ctl = "Continue" =>
       \A ev \in {e \in Events(Cur) : Possible(Cur, e)} : \A o \in Continue(Cur, ev) :
         \A i \in DOMAIN o.s.log : o.s.log[i] # "stale"
  /\ ctl = "idle" =>
       \A o \in Step(Cur) : \A i \in DOMAIN o.s.log : o.s.log[i] # "stale"

C14_SwitchGoroutine ==
  ctl = "idle" =>
    \A gid \in SwitchGids : \A in \in InfoInputs(Cur) :
      LET o == SwitchGoroutine(Cur, gid, in.W, in.fault) IN
      IF gid = -1
        THEN /\ o.s.CurrentThread = CurrentThread
             /\ o.s.SelectedGoroutine.Id = SelectedGoroutine.Id
      ELSE o.err = nil =>
             /\ o.s.SelectedGoroutine.Id = gid
             /\ o.s.CurrentThread =
                  IF ThreadOf(Cur, gid) = 0 THEN CurrentThread ELSE ThreadOf(Cur, gid)

\* some thread of s is on a triggered temp breakpoint
AnyTemp(s) == \E t \in DOMAIN s.Threads : onTriggeredTempBreakpoint(s.Threads[t])

\* some thread of s is on a triggered breakpoint
AnyTriggered(s) == \E t \in DOMAIN s.Threads : onTriggeredBreakpoint(s.Threads[t])

\* C15: after runBreakpointConditions returned nil: if a thread is on a
\* triggered temp breakpoint, CurrentThread is on one; otherwise, if a thread
\* is on a triggered user breakpoint, CurrentThread is on a triggered
\* breakpoint; and CurrentThread did not change when the thread that was
\* current is already such a thread, or when no thread is triggered.
C15_ConditionsSelectThread ==
  (ctl = "idle" /\ steps = 0) =>
    \A o \in runBreakpointConditions(Cur) :
      o.err = nil =>
        LET now == o.s.Threads[o.s.CurrentThread]
            was == o.s.Threads[CurrentThread]
        IN /\ AnyTemp(o.s) => onTriggeredTempBreakpoint(now)
           /\ (~AnyTemp(o.s) /\ AnyTriggered(o.s)) => onTriggeredBreakpoint(now)
           /\ (IF AnyTemp(o.s) THEN onTriggeredTempBreakpoint(was)
               ELSE IF AnyTriggered(o.s) THEN onTriggeredBreakpoint(was)
               ELSE TRUE) => o.s.CurrentThread = CurrentThread

\* C15 happens: runBreakpointConditions has run with one thread on a triggered
\* user breakpoint and the other on a triggered temp breakpoint, which is now
\* the current one
C15_Witness ==
  /\ steps = 1 /\ err = nil
  /\ \E t \in Tids : /\ t # CurrentThread
                      /\ onTriggeredBreakpoint(Threads[t])
                      /\ ~Threads[t].CurrentBreakpoint.Temp
  /\ onTriggeredTempBreakpoint(Threads[CurrentThread])

\* s is the beginning of q
IsPrefix(s, q) == Len(s) <= Len(q) /\ \A i \in DOMAIN s : s[i] = q[i]

\* closures run one at a time, in the order in which the worker received them
SerFIFO ==
  /\ IsPrefix(ser.ran, ser.accepted)
  /\ Len(ser.accepted) <= Len(ser.ran) + 1

\* every call of execPtraceFunc that has returned had its closure run to the end
SerRanBeforeReturn == \A r \in ser.rets : \E i \in DOMAIN ser.ran : ser.ran[i] = r

C17_NextErrorClearsTemps ==
  /\ (ctl = "idle" /\ op = "Next" /\ err \notin {nil, "next while nexting"}) =>
       ~HasTemp(Cur)
  /\ (ctl = "idle" /\ ~exited /\ ~HasTemp(Cur) /\ Threads[CurrentThread].g # 0) =>
       \A in \in NextInputs(Cur) :
         (in.fault = NoFault /\ in.res \in {"ThreadBlocked", "NoReturnAddr"}) =>
           \A o \in Next(Cur, in) : o.cont /\ o.err = nil

\* C18: when Process.Step is called while a thread is stopped at a breakpoint
\* it has latched, that thread steps over the original instruction, not the
\* trap, and afterwards the breakpoint is still in the table and installed.
C18_StepOverLatched ==
  (ctl = "idle" /\ ~exited) =>
    \A t \in Tids :
      ( /\ Threads[t].CurrentBreakpoint # NoBp
        /\ Threads[t].PC = Threads[t].CurrentBreakpoint.Addr
        /\ mem[Threads[t].PC] = Trap
        /\ ~blocked(Cur, t) ) =>
        \A o \in Step(Cur) :
          /\ \A i \in DOMAIN o.s.log : o.s.log[i] # "steptrap"
          /\ o.s.Breakpoints = Breakpoints
          /\ o.s.mem = mem

\* C19: when a read of tracee memory made by GoroutinesInfo fails, also the
\* read of the allgs pointer after allglen was read, GoroutinesInfo returns an
\* error, does not abort, and stores nothing in the cache.
C19_GoroutinesInfoErrors ==
  (ctl = "idle" /\ ~exited /\ allGCache = {}) =>
    \A in \in InfoInputs(Cur) :
      in.fault # NoFault =>
        LET o == GoroutinesInfo(Cur, in.W, in.fault) IN
        o.err \notin {nil, panic} /\ o.s.allGCache = {}

\* the pcs FindFunctionLocation may return: the function's entry, or the first
\* line after the entry line that belongs to the function
LocAnswers(l) ==
  {LinePC(l.entry)} \cup
  {LinePC(k) : k \in {j \in DOMAIN l.tab :
                        /\ j > l.entry /\ l.tab[j] = l.funcName
                        /\ \A i \in DOMAIN l.tab :
                             (i > l.entry /\ i < j) => l.tab[i] # l.funcName}}

\* C20: for every symbol table that has funcName, FindFunctionLocation(funcName,
\* true, _) terminates, and returns the function's entry pc or the pc of the
\* first later line that belongs to funcName, also when no later line of the
\* file belongs to any function.
C20_FindFunctionLocationTerminates ==
  /\ [](loc.pc = "returned" => loc.result \in LocAnswers(loc))
  /\ (loc.pc = "loop") ~> (loc.pc = "returned")

(* ------------------------------- C21 ------------------------------------ *)
\* C21: no two breakpoints of the table have the same ID, and between two
\* operations FindBreakpointByID called with the ID of a user breakpoint
\* returns that breakpoint, whatever temp breakpoints are in the table.
C21_BreakpointIDsUnique ==
  /\ \A a, b \in DOMAIN Breakpoints :
       Breakpoints[a].ID = Breakpoints[b].ID => a = b
  /\ ctl = "idle" =>
       \A a \in DOMAIN Breakpoints :
         ~Breakpoints[a].Temp =>
           FindBreakpointByID(Cur, Breakpoints[a].ID)
             = {[ok |-> TRUE, bp |-> Breakpoints[a]]}

====
